---- MODULE Spec2Model ----
(***************************************************************************)
(* Model of the MCP tool bridge of packages/components/nodes/tools/MCP:    *)
(* the MCPToolkit class (createClient, initialize, get_tools), the adapter *)
(* callable built by MCPTool, and the root check of createSchemaModel.     *)
(*                                                                         *)
(* JavaScript runs every piece of code between two awaits atomically, so   *)
(* each action below is one such piece: the start of a call up to its      *)
(* first await, or the resumption of an await up to the next one.  The     *)
(* remote server and the transports are the environment: every connect,    *)
(* request and close may succeed or fail.                                  *)
(***************************************************************************)
EXTENDS Integers, Sequences, FiniteSets, TLC

\* ---------------------------------------------------------------- bounds
\* concurrent callers of one toolkit
NumProcs == 2
\* initialize()/adapter calls started in one behaviour
MaxCalls == 3
\* longest descriptor list the server returns
MaxTools == 3

Procs == 1..NumProcs
\* the places that hold a Client object: the frame of each caller's call
Sids == Procs

\* ---------------------------------------------------------------- values
\* an absent value (undefined / null) and a present one
Null == <<>>
Some(v) == <<v>>

\* root shapes a server may declare for an operation
ShapeObjX == [type |-> "object", properties |-> Some([x |-> [type |-> "string"]])]
ShapeObjEmpty == [type |-> "object", properties |-> Some([n \in {} |-> 0])]
ShapeObjNoProps == [type |-> "object", properties |-> Null]
ShapeString == [type |-> "string", properties |-> Some([x |-> [type |-> "string"]])]
RootShapes == {ShapeObjX, ShapeObjEmpty, ShapeObjNoProps, ShapeString}

ToolNames == [i \in 1..(MaxTools + 1) |-> <<"t1", "t2", "t3", "t4", "t5">>[i]]

\* the descriptor lists a 'tools/list' response may carry: names are unique
\* within one catalog
DescriptorLists ==
    UNION {[1..n -> RootShapes] : n \in 0..MaxTools}

Descriptor(i, shape) == [name |-> ToolNames[i], inputSchema |-> shape]

\* the responses of the server of the concurrency scenarios: an empty
\* catalog, and three operations of which the second has an invalid root
\* shape
FewLists ==
    {<<>>, <<ShapeObjX, ShapeString, ShapeObjEmpty>>}

\* the env of a process configuration: absent, without PATH, with PATH
ConfiguredEnvs == {Null, Some([HOME |-> "/home/u"]), Some([PATH |-> "/opt/bin"])}

\* the args of a process configuration, each argument the sequence of its
\* characters: one that no denylist pattern matches and one that is an
\* absolute path
PlainArgs == <<[typeof |-> "string", value |-> <<"-", "y">>]>>
PathArgs ==
    <<[typeof |-> "string", value |-> <<"-", "y">>],
      [typeof |-> "string", value |-> <<"/", "e", "t", "c", "/", "p", "a", "s", "s", "w", "d">>]>>
ConfiguredArgs == {PlainArgs, PathArgs}

\* process configurations {command, args, env}
StdioServerParams ==
    {[command |-> Some("npx"), args |-> a, env |-> e, url |-> Null, headers |-> Null,
      options |-> Null] :
        a \in ConfiguredArgs, e \in ConfiguredEnvs}

\* connection configurations: process form {command, ...} or network form
\* {url, headers?}
ServerParams ==
    {c \in StdioServerParams : c.env = Null /\ c.args = PlainArgs}
    \cup {[command |-> Null, args |-> <<>>, env |-> Null, url |-> u, headers |-> h,
           options |-> Null] :
            u \in {Null, Some("bad"), Some("http://s")},
            h \in {Null, Some("h1")}}

\* a configuration with per-call options {timeout}
InvokeServerParams ==
    {[command |-> Some("npx"), args |-> PlainArgs, env |-> Null, url |-> Null,
      headers |-> Null, options |-> Some([timeout |-> 30000])]}

\* a JavaScript value as JSON.stringify sees it: the kind of the value,
\* then a string as the sequence of its characters, the items of an array,
\* or the entries <<key, value>> of an object in the order of its keys
JsString(chars) == <<"string", chars>>
JsArray(items) == <<"array", items>>
JsObject(entries) == <<"object", entries>>

\* a string between quotes, with quote and backslash escaped
RECURSIVE Escaped(_)
Escaped(chars) ==
    IF chars = <<>> THEN <<>>
    ELSE (IF Head(chars) \in {"\"", "\\"} THEN <<"\\", Head(chars)>> ELSE <<Head(chars)>>)
            \o Escaped(Tail(chars))
Quoted(chars) == <<"\"">> \o Escaped(chars) \o <<"\"">>

\* JSON.stringify(value): the characters of the text, without white space;
\* the items of an array and the entries of an object are separated by
\* commas, a key is written as its name between quotes
RECURSIVE JSONstringify(_)
RECURSIVE StringifyItems(_)
RECURSIVE StringifyEntries(_)
StringifyItems(items) ==
    IF items = <<>> THEN <<>>
    ELSE JSONstringify(Head(items))
            \o (IF Len(items) > 1 THEN <<",">> ELSE <<>>)
            \o StringifyItems(Tail(items))
StringifyEntries(entries) ==
    IF entries = <<>> THEN <<>>
    ELSE <<"\"", Head(entries)[1], "\"", ":">> \o JSONstringify(Head(entries)[2])
            \o (IF Len(entries) > 1 THEN <<",">> ELSE <<>>)
            \o StringifyEntries(Tail(entries))
JSONstringify(value) ==
    IF value[1] = "string" THEN Quoted(value[2])
    ELSE IF value[1] = "array" THEN <<"[">> \o StringifyItems(value[2]) \o <<"]">>
    ELSE <<"{">> \o StringifyEntries(value[2]) \o <<"}">>

\* content payloads of a 'tools/call' result: a list of content items
TextItem(chars) == JsObject(<<<<"type", JsString(<<"t", "e", "x", "t">>)>>, <<"text", JsString(chars)>>>>)
ContentText == JsArray(<<TextItem(<<"o", "k">>)>>)
Contents ==
    {JsArray(<<>>), ContentText,
     JsArray(<<TextItem(<<"a", "\"", "b">>), TextItem(<<"o", "k">>)>>)}

\* arguments of an adapter call
CallInputQuery == JsObject(<<<<"x", JsString(<<"q">>)>>>>)
CallInputs == {JsObject(<<>>), CallInputQuery}

VARIABLES
    serverParams,   \* MCPToolkit.serverParams
    transportType,  \* MCPToolkit.transportType
    _tools,         \* MCPToolkit._tools: Null or Some(descriptor list)
    tools,          \* MCPToolkit.tools: sequence of adapters
    catalogs,       \* the descriptor lists the remote server may answer with
    contents,       \* the content payloads the remote server may answer a call with
    callInputs,     \* the arguments the host may call an adapter with
    proc,           \* per caller: the call in progress and its locals
    last,           \* the call that settled in the step just taken, with its outcome
    sessions,       \* the Client objects created so far
    nClients,       \* number of Client objects created (createClient calls)
    nCalls,         \* number of initialize()/adapter calls started
    nInit,          \* number of initialize() calls that found no catalog
    nInvokes,       \* number of adapter calls started
    listRequests,   \* number of 'tools/list' requests issued
    discoveryOpens, \* number of sessions opened by initialize() calls
    toolsAssigned,  \* number of assignments to _tools
    initCompleted,  \* some initialize() call has returned
    spawnArgs,      \* the argument list handed to validateArgsForLocalFileAccess
    rejection,      \* "none" before the call, then "ok" or the error raised
    message,        \* the message of the error raised by the guard
    rootSchema,     \* the root shape handed to createSchemaModel
    baseSchema,     \* Null, then Some(the validator createSchemaModel returned)
    toolInput,      \* the argument value handed to the validator
    nodeData,       \* the inputs of the Custom_MCP node: mcpServerConfig and mcpActions
    nodeToolkit,    \* Custom_MCP.toolkit: Null or Some(the MCPToolkit it holds)
    nodeProc,       \* per caller of the node: the init or listActions call in progress
    nodeLast,       \* the node call that settled in the step just taken
    nToolkits,      \* number of MCPToolkit objects constructed by the node
    parsed          \* "none", then "thrown" or "built" by createSchemaModel, then "accepted" or "rejected" by the validator

vars == <<serverParams, transportType, _tools, tools, catalogs, contents, callInputs,
          proc, last, sessions,
          nClients, nCalls, nInit, nInvokes, listRequests, discoveryOpens,
          toolsAssigned, initCompleted, spawnArgs, rejection, message, rootSchema,
          baseSchema, toolInput, parsed, nodeData, nodeToolkit, nodeProc, nodeLast,
          nToolkits>>

\* the variables of the Custom_MCP node
customNode == <<nodeData, nodeToolkit, nodeProc, nodeLast, nToolkits>>

\* the variables of the toolkit, its callers and its server
bridge == <<serverParams, transportType, _tools, tools, catalogs, contents, callInputs,
            proc, last, sessions,
            nClients, nCalls, nInit, nInvokes, listRequests, discoveryOpens,
            toolsAssigned, initCompleted>>

\* the variables of the pure functions: the argument guard and the schema
\* translation
pure == <<spawnArgs, rejection, message, rootSchema, baseSchema, toolInput, parsed>>

\* the fields of the toolkit and the server it talks to
toolkit == <<serverParams, transportType, _tools, tools, catalogs>>

\* what the host and the server may send
environment == <<contents, callInputs>>

\* the counters of calls
calls == <<nCalls, nInit, nInvokes>>

\* the counters of discovery
discovery == <<listRequests, discoveryOpens, toolsAssigned>>

\* ------------------------------------------------------------ construction
\* a transport kind decided from the url field
TransportTypeOf_url(params) == IF params.url = Null THEN "stdio" ELSE "sse"

\* Custom_MCP.createToolkit: the transport kind follows the command field
TransportTypeOf(params) == IF params.command = Null THEN "sse" ELSE "stdio"

\* a caller outside any call; the locals of a call: cc is the client of
\* createClient, client the variable of the caller's try block
IdleProc ==
    [op |-> "none", pc |-> "idle", cc |-> 0, client |-> 0,
     attempts |-> <<>>, ntransports |-> 0, pending |-> "none",
     name |-> "none", nreq |-> 0, res |-> <<>>,
     input |-> Null, reqs |-> <<>>, content |-> Null, out |-> Null]

\* no call settled in the step just taken
NoCall ==
    [op |-> "none", session |-> "none", attempts |-> <<>>,
     ntransports |-> 0, pending |-> "none", result |-> "none",
     nreq |-> 0, res |-> <<>>,
     name |-> "none", input |-> Null, reqs |-> <<>>, content |-> Null, out |-> Null,
     returned |-> <<>>]

\* a Client object: its connection state, the kinds of call that hold it and
\* the number of calls createClient handed it to; no object in this place
NoSession == [state |-> "unused", ops |-> {}, handed |-> 0]

\* no argument list is being checked
NoArgs == spawnArgs = <<>> /\ rejection = "none" /\ message = <<>>

\* a caller of the node outside any call; the locals of a call: id numbers
\* the MCPToolkit createToolkit constructed, toolkit is the const of init
NodeIdle == [op |-> "none", pc |-> "idle", id |-> 0, toolkit |-> Null]

\* no node call settled in the step just taken
NoNodeCall ==
    [op |-> "none", caller |-> 0, result |-> "none", cause |-> "none", value |-> <<>>,
     toolkit |-> Null]

\* a node input without configuration and without selected actions
NoNodeData == [mcpServerConfig |-> <<"undefined", <<>>>>, mcpActions |-> <<"undefined", <<>>>>]

\* no node is in use
NoNode ==
    /\ nodeData = NoNodeData
    /\ nodeToolkit = Null
    /\ nodeProc = [p \in Procs |-> NodeIdle]
    /\ nodeLast = NoNodeCall
    /\ nToolkits = 0

\* no shape is being translated
NoSchema ==
    /\ rootSchema = Null
    /\ baseSchema = Null
    /\ toolInput = Null
    /\ parsed = "none"

\* a toolkit constructed by createToolkit from one of the configurations
Constructed(configurations) ==
    /\ NoArgs
    /\ NoSchema
    /\ NoNode
    /\ serverParams \in configurations
    /\ transportType = TransportTypeOf(serverParams)
    /\ _tools = Null
    /\ tools = <<>>
    /\ catalogs = FewLists
    /\ proc = [p \in Procs |-> IdleProc]
    /\ last = NoCall
    /\ sessions = [s \in Sids |-> NoSession]
    /\ nClients = 0
    /\ nCalls = 0
    /\ nInit = 0
    /\ nInvokes = 0
    /\ listRequests = 0
    /\ discoveryOpens = 0
    /\ toolsAssigned = 0
    /\ initCompleted = FALSE

\* the arguments of the host and the payloads of the server
Environment(inputs, payloads) ==
    /\ callInputs = inputs
    /\ contents = payloads

Init == Constructed(ServerParams) /\ Environment({CallInputQuery}, {ContentText})

\* a toolkit of a process configuration
InitStdio == Constructed(StdioServerParams) /\ Environment({CallInputQuery}, {ContentText})

\* a toolkit whose adapters are called with several arguments and answered
\* with several payloads
InitInvoke == Constructed(InvokeServerParams) /\ Environment(CallInputs, Contents)

\* ------------------------------------------------------------ call frames
\* a caller is free to start a call
Free(p) == proc[p].pc = "idle"

\* the call of p goes on with locals rec; sess are the Client objects; no
\* call settles in this step
Continue(p, rec, sess) ==
    /\ proc' = [proc EXCEPT ![p] = rec]
    /\ sessions' = sess
    /\ last' = NoCall

\* a Client object that no local variable refers to any more is garbage,
\* unless its session was left open
Dropped(sess, sid) ==
    IF sid = 0 \/ sess[sid].state = "open" THEN sess
    ELSE [sess EXCEPT ![sid] = NoSession]

\* the call of p settles with outcome r: its locals go out of scope
Finish(p, rec, r, sess) ==
    /\ proc' = [proc EXCEPT ![p] = IdleProc]
    /\ last' = [op |-> rec.op,
                session |-> IF rec.client = 0 THEN "none" ELSE sess[rec.client].state,
                attempts |-> rec.attempts, ntransports |-> rec.ntransports,
                pending |-> rec.pending, result |-> r,
                nreq |-> rec.nreq, res |-> rec.res,
                name |-> rec.name, input |-> rec.input, reqs |-> rec.reqs,
                content |-> rec.content, out |-> rec.out, returned |-> <<>>]
    /\ sessions' = Dropped(sess, rec.cc)
    /\ initCompleted' = (initCompleted \/ (rec.op = "initialize" /\ r = "ok"))

\* ------------------------------------------------------------ createClient
\* a toolkit that keeps one Client object and hands it to every caller
NewClientId_cached(p) == CHOOSE s \in Sids : \A t \in Sids : s <= t

\* new Client(...): every createClient call builds its own Client object,
\* referred to from the frame of that call only
NewClientId(p) == p

\* a check that forgets the absent url
UrlMissing_unchecked(params) == FALSE

\* the network branch raises when the configuration has no url
UrlMissing(params) == params.url = Null

\* new URL(url) raises on a string that is not a URL
UrlInvalid(params) == params.url = Some("bad")

\* headers handed to the StreamableHTTPClientTransport constructor
HttpHeaders(params) == params.headers

\* an event-stream transport built from the url alone
SseHeaders_dropped(params) == Null

\* headers handed to the SSEClientTransport constructor (requestInit and the
\* fetch of eventSourceInit)
SseHeaders(params) == params.headers

\* one connect attempt of a createClient call and how it ended
Attempt(proto, hdr) ==
    [proto |-> proto, headers |-> hdr, outcome |-> "pending", resource |-> "open"]

\* process.env.PATH of the host
ProcessEnvPath == "/usr/bin"

\* { ...(this.serverParams.env || {}), PATH: process.env.PATH }: the
\* configured variables, then PATH
SpawnEnv(params) ==
    LET env == IF params.env = Null THEN [n \in {} |-> ""] ELSE params.env[1] IN
    [n \in DOMAIN env \cup {"PATH"} |-> IF n = "PATH" THEN ProcessEnvPath ELSE env[n]]

\* the parameters handed to the StdioClientTransport constructor: a copy of
\* the configuration with the env above
StdioParams(params) == [command |-> params.command, args |-> params.args, env |-> SpawnEnv(params)]

\* a process branch that writes the overlay into the stored configuration
serverParamsAfterOverlay_inPlace(params) == [params EXCEPT !.env = Some(SpawnEnv(params))]

\* this.serverParams once the process branch has built the parameters of the
\* transport: the overlay goes to the copy, the stored configuration is not
\* assigned
serverParamsAfterOverlay(params) == params

\* the spawn of the process and the handshake on its channel
StdioAttempt(params) ==
    [proto |-> "stdio", headers |-> Null, outcome |-> "pending", resource |-> "open",
     spawned |-> params]

\* the error a failed connect of the protocol raises
ConnectError(proto) ==
    IF proto = "stdio" THEN "StdioConnectError"
    ELSE IF proto = "http" THEN "HttpConnectError"
    ELSE "SseConnectError"

\* the Client objects once createClient has built the object sid, in state
\* st, for a call of kind op
Built(sid, st, op) ==
    [sessions EXCEPT ![sid] = [state |-> st, ops |-> @.ops \cup {op},
                               handed |-> @.handed + 1]]

\* createClient up to its first await, called from a call whose locals are
\* rec: the transport is constructed and connect is called, or the
\* configuration is rejected and the error leaves the caller's try block with
\* its client still null
createClientStart(p, rec) ==
    LET sid == NewClientId(p)
        mine == [rec EXCEPT !.cc = sid]
    IN
    /\ nClients' = nClients + 1
    /\ serverParams' = IF transportType = "stdio"
                       THEN serverParamsAfterOverlay(serverParams)
                       ELSE serverParams
    /\ IF transportType = "stdio"
       THEN /\ Continue(p, [mine EXCEPT !.pc = "connect", !.ntransports = 1,
                                        !.attempts = <<StdioAttempt(StdioParams(serverParams))>>],
                        Built(sid, "connecting", rec.op))
            /\ UNCHANGED initCompleted
       ELSE IF UrlMissing(serverParams)
       THEN Finish(p, mine, "ConfigError", Built(sid, "unconnected", rec.op))
       ELSE IF UrlInvalid(serverParams)
       THEN Finish(p, mine, "InvalidURL", Built(sid, "unconnected", rec.op))
       ELSE /\ Continue(p, [mine EXCEPT !.pc = "connect", !.ntransports = 2,
                                        !.attempts = <<Attempt("http", HttpHeaders(serverParams))>>],
                        Built(sid, "connecting", rec.op))
            /\ UNCHANGED initCompleted

\* the protocol of the connect attempt in flight
CurrentProto(rec) == rec.attempts[Len(rec.attempts)].proto

\* the transport of an attempt once client.connect(transport) has raised:
\* createClient closes nothing, so the transport is released or left open
\* as the client library leaves it
ResourceAfterFailure == {"closed", "open"}

\* the attempts of the call once the one in flight has ended with outcome o
\* and its transport in state resource
Settled(rec, o, resource) ==
    [rec.attempts EXCEPT ![Len(rec.attempts)] = [@ EXCEPT !.outcome = o, !.resource = resource]]

\* the request the caller issues on the session createClient returned
RequestPc(rec) == IF rec.op = "initialize" THEN "list" ELSE "call"

\* a configuration whose options stay behind
requestOptions_none(params) == Null

\* const requestOptions = serverParams.options
requestOptions(params) == params.options

\* the request the caller hands to client.request with these options:
\* 'tools/list' from initialize, 'tools/call' with the name of the adapter
\* and the input of the caller from the adapter
Request(rec, params) ==
    IF rec.op = "initialize"
    THEN [method |-> "tools/list", params |-> Null, options |-> requestOptions(params)]
    ELSE [method |-> "tools/call",
          params |-> Some([name |-> rec.name, arguments |-> rec.input[1]]),
          options |-> requestOptions(params)]

\* await client.connect(transport) settles: createClient returns the client
\* and the caller issues its request, or createClient falls back to the
\* event-stream protocol, or it raises
createClient_connect(p) ==
    LET rec == proc[p]
        sid == rec.cc
    IN
    /\ rec.pc = "connect"
    /\ \E connected \in BOOLEAN :
         IF connected
         THEN /\ proc' = [proc EXCEPT ![p] =
                              [rec EXCEPT !.client = sid, !.pc = RequestPc(rec),
                                          !.attempts = <<>>, !.ntransports = 0,
                                          !.nreq = @ + 1,
                                          !.reqs = Append(@, Request(rec, serverParams))]]
              /\ sessions' = [sessions EXCEPT ![sid].state = "open"]
              /\ last' = [NoCall EXCEPT !.op = "createClient", !.session = "open",
                                        !.returned = Settled(rec, "ok", "open")]
              /\ listRequests' = listRequests + (IF rec.op = "initialize" THEN 1 ELSE 0)
              /\ discoveryOpens' = discoveryOpens + (IF rec.op = "initialize" THEN 1 ELSE 0)
              /\ UNCHANGED initCompleted
         ELSE \E resource \in ResourceAfterFailure :
              LET failed == Settled(rec, ConnectError(CurrentProto(rec)), resource) IN
              IF CurrentProto(rec) = "http"
              THEN /\ Continue(p, [rec EXCEPT !.ntransports = @ + 2,
                                              !.attempts = Append(failed,
                                                                  Attempt("sse", SseHeaders(serverParams)))],
                               sessions)
                   /\ UNCHANGED <<listRequests, discoveryOpens, initCompleted>>
              ELSE /\ Finish(p, [rec EXCEPT !.attempts = failed],
                             ConnectError(CurrentProto(rec)),
                             [sessions EXCEPT ![sid].state = "failed"])
                   /\ UNCHANGED <<listRequests, discoveryOpens>>
    /\ UNCHANGED <<toolkit, nClients, calls, toolsAssigned>>
    /\ UNCHANGED environment
    /\ UNCHANGED pure
    /\ UNCHANGED customNode

\* ------------------------------------------------------------ schema, adapters
\* a root check that forgets the type
createSchemaModelThrows_anyType(inputSchema) == inputSchema.properties = Null

\* createSchemaModel raises on a root that is not an object or whose
\* properties are falsy
createSchemaModelThrows(inputSchema) ==
    inputSchema.type # "object" \/ inputSchema.properties = Null

\* MCPTool: the adapter built for one descriptor
MCPTool(tool) == [name |-> tool.name]

\* the settled outcomes of get_tools, in descriptor order: fulfilled ones only
RECURSIVE Successes(_)
Successes(list) ==
    IF list = <<>> THEN <<>>
    ELSE IF createSchemaModelThrows(Head(list).inputSchema)
         THEN Successes(Tail(list))
         ELSE <<MCPTool(Head(list))>> \o Successes(Tail(list))

\* an accessor without its state check
GetToolsGuard_never == FALSE

\* get_tools raises when no catalog was discovered
GetToolsGuard == _tools = Null

\* get_tools() called by the host; reading this._tools.tools of a null
\* _tools raises a TypeError
get_tools(p) ==
    /\ Free(p)
    /\ LET rec == [IdleProc EXCEPT !.op = "get_tools"] IN
       IF GetToolsGuard
       THEN Finish(p, rec, "StateError", sessions)
       ELSE IF _tools = Null
       THEN Finish(p, rec, "TypeError", sessions)
       ELSE Finish(p, [rec EXCEPT !.res = Successes(_tools[1])], "ok", sessions)
    /\ UNCHANGED <<toolkit, nClients, calls, discovery>>
    /\ UNCHANGED environment
    /\ UNCHANGED pure
    /\ UNCHANGED customNode

\* ---------------------------------------------------------------- initialize
\* an initialize that discovers on every call
InitializeGuard_always == TRUE

\* an initialize that remembers that it was tried and never tries again
InitializeGuard_once == _tools = Null /\ nInit = 0

\* the lazy guard of initialize
InitializeGuard == _tools = Null

\* an initialize that closes its client on the success path only
InitializeMustClose_onSuccess(rec) == rec.client # 0 /\ rec.pending = "none"

\* the finally block of initialize closes the client it holds
InitializeMustClose(rec) == rec.client # 0

\* control reaches a finally block: close is called on the client, or the
\* call settles with the outcome of its try block
Finally(p, rec, mustClose) ==
    IF mustClose
    THEN /\ Continue(p, [rec EXCEPT !.pc = "close"], sessions)
         /\ UNCHANGED initCompleted
    ELSE Finish(p, rec, IF rec.pending = "none" THEN "ok" ELSE rec.pending, sessions)

\* initialize() up to its first await
initialize(p) ==
    /\ Free(p)
    /\ nCalls < MaxCalls
    /\ nCalls' = nCalls + 1
    /\ LET rec == [IdleProc EXCEPT !.op = "initialize"] IN
       IF InitializeGuard
       THEN /\ createClientStart(p, rec)
            /\ nInit' = nInit + 1
       ELSE /\ Finish(p, rec, "ok", sessions)
            /\ UNCHANGED <<serverParams, nClients, nInit>>
    /\ UNCHANGED <<transportType, _tools, tools, catalogs, nInvokes, discovery>>
    /\ UNCHANGED environment
    /\ UNCHANGED pure
    /\ UNCHANGED customNode

\* the 'tools/list' request settles; on success _tools is assigned and
\* get_tools() runs up to its Promise.allSettled
initialize_list(p) ==
    LET rec == proc[p] IN
    /\ rec.pc = "list"
    /\ \/ /\ LET failed == [rec EXCEPT !.pending = "ListError"] IN
             Finally(p, failed, InitializeMustClose(failed))
          /\ UNCHANGED <<_tools, toolsAssigned>>
       \/ \E shapes \in catalogs :
            LET list == [i \in 1..Len(shapes) |-> Descriptor(i, shapes[i])] IN
            /\ _tools' = Some(list)
            /\ toolsAssigned' = toolsAssigned + 1
            /\ Continue(p, [rec EXCEPT !.pc = "settle", !.res = Successes(list)], sessions)
            /\ UNCHANGED initCompleted
    /\ UNCHANGED <<serverParams, transportType, tools, catalogs, nClients, calls,
                   listRequests, discoveryOpens>>
    /\ UNCHANGED environment
    /\ UNCHANGED pure
    /\ UNCHANGED customNode

\* get_tools() resolves: tools is assigned and the finally block runs
initialize_get_tools(p) ==
    LET rec == proc[p] IN
    /\ rec.pc = "settle"
    /\ tools' = rec.res
    /\ Finally(p, [rec EXCEPT !.res = <<>>], InitializeMustClose(rec))
    /\ UNCHANGED <<serverParams, transportType, _tools, catalogs, nClients, calls,
                   discovery>>
    /\ UNCHANGED environment
    /\ UNCHANGED pure
    /\ UNCHANGED customNode

\* ------------------------------------------------------------ adapter call
\* an adapter that closes its client on the success path only
InvokeMustClose_onSuccess(rec) == rec.client # 0 /\ rec.pending = "none"

\* the finally block of the adapter closes the client it holds
InvokeMustClose(rec) == rec.client # 0

\* the host calls the adapter tools[i]: up to the first await of createClient
MCPTool_func(p, i) ==
    /\ Free(p)
    /\ nCalls < MaxCalls
    /\ i \in 1..Len(tools)
    /\ nCalls' = nCalls + 1
    /\ nInvokes' = nInvokes + 1
    /\ \E input \in callInputs :
          createClientStart(p, [IdleProc EXCEPT !.op = "invoke", !.name = tools[i].name,
                                                !.input = Some(input)])
    /\ UNCHANGED <<transportType, _tools, tools, catalogs, nInit, discovery>>
    /\ UNCHANGED environment
    /\ UNCHANGED pure
    /\ UNCHANGED customNode

\* const contentString = JSON.stringify(content)
contentString(content) == JSONstringify(content)

\* the 'tools/call' request settles and the finally block runs
MCPTool_call(p) ==
    LET rec == proc[p] IN
    /\ rec.pc = "call"
    /\ \/ LET settled == [rec EXCEPT !.pending = "CallError"] IN
          Finally(p, settled, InvokeMustClose(settled))
       \/ \E content \in contents :
            LET settled == [rec EXCEPT !.content = Some(content),
                                       !.out = Some(contentString(content))] IN
            Finally(p, settled, InvokeMustClose(settled))
    /\ UNCHANGED <<toolkit, nClients, calls, discovery>>
    /\ UNCHANGED environment
    /\ UNCHANGED pure
    /\ UNCHANGED customNode

\* ---------------------------------------------------------------- close
\* await client.close() settles inside a finally block.  The transports
\* release their channel before close can raise, so the session is closed on
\* both outcomes; an error raised inside finally replaces the pending outcome
\* of the try block
client_close(p) ==
    LET rec == proc[p] IN
    /\ rec.pc = "close"
    /\ \E closed \in BOOLEAN :
         Finish(p, rec,
                IF ~closed THEN "CloseError"
                ELSE IF rec.pending = "none" THEN "ok"
                ELSE rec.pending,
                [sessions EXCEPT ![rec.client].state = "closed"])
    /\ UNCHANGED <<toolkit, nClients, calls, discovery>>
    /\ UNCHANGED environment
    /\ UNCHANGED pure
    /\ UNCHANGED customNode

\* ------------------------------------------------------------ argument guard
\* A string is the sequence of its characters; "\\" is the backslash and
\* NulByte stands for the character U+0000.
NulByte == "\\0"

\* a process argument: a string, or a value of another type
Arg(chars) == [typeof |-> "string", value |-> chars]
NonStringArg == [typeof |-> "number", value |-> <<>>]

UpperCase ==
    <<"A", "B", "C", "D", "E", "F", "G", "H", "I", "J", "K", "L", "M",
      "N", "O", "P", "Q", "R", "S", "T", "U", "V", "W", "X", "Y", "Z">>
LowerCase ==
    <<"a", "b", "c", "d", "e", "f", "g", "h", "i", "j", "k", "l", "m",
      "n", "o", "p", "q", "r", "s", "t", "u", "v", "w", "x", "y", "z">>

\* [a-zA-Z]
IsLetter(c) == \E i \in 1..26 : c = UpperCase[i] \/ c = LowerCase[i]

\* the i flag of a pattern: letters match in either case
ToLower(c) ==
    IF \E i \in 1..26 : c = UpperCase[i]
    THEN LowerCase[CHOOSE i \in 1..26 : c = UpperCase[i]]
    ELSE c
Lowered(str) == [i \in 1..Len(str) |-> ToLower(str[i])]

\* pattern anchored at the start (^), unanchored, and anchored at the end ($)
StartsWith(str, pre) ==
    Len(str) >= Len(pre) /\ SubSeq(str, 1, Len(pre)) = pre
Contains(str, sub) ==
    \E i \in 1..(Len(str) - Len(sub) + 1) : SubSeq(str, i, i + Len(sub) - 1) = sub
EndsWith(str, suf) ==
    Len(str) >= Len(suf) /\ SubSeq(str, Len(str) - Len(suf) + 1, Len(str)) = suf

\* the same under the i flag, for a pattern written in lower case
StartsWithI(str, pre) ==
    Len(str) >= Len(pre) /\ Lowered(SubSeq(str, 1, Len(pre))) = pre
EndsWithI(str, suf) ==
    Len(str) >= Len(suf) /\ Lowered(SubSeq(str, Len(str) - Len(suf) + 1, Len(str))) = suf

\* (exe|bat|cmd|sh|ps1|vbs|scr|com|pif|dll|sys)
Extensions ==
    {<<"e", "x", "e">>, <<"b", "a", "t">>, <<"c", "m", "d">>, <<"s", "h">>,
     <<"p", "s", "1">>, <<"v", "b", "s">>, <<"s", "c", "r">>, <<"c", "o", "m">>,
     <<"p", "i", "f">>, <<"d", "l", "l">>, <<"s", "y", "s">>}

\* (?:file|input|output|config|load|save|import|export|read|write)
FileFlags ==
    {<<"f", "i", "l", "e">>, <<"i", "n", "p", "u", "t">>,
     <<"o", "u", "t", "p", "u", "t">>, <<"c", "o", "n", "f", "i", "g">>,
     <<"l", "o", "a", "d">>, <<"s", "a", "v", "e">>,
     <<"i", "m", "p", "o", "r", "t">>, <<"e", "x", "p", "o", "r", "t">>,
     <<"r", "e", "a", "d">>, <<"w", "r", "i", "t", "e">>}

\* --? in front of a flag name
Dashes == {<<"-">>, <<"-", "-">>}

\* dangerousPatterns[k].test(arg), in the order of the array
PatternTest(k, arg) ==
    CASE k = 1 -> Len(arg) >= 2 /\ arg[1] = "/" /\ arg[2] # "/"
      [] k = 2 -> Len(arg) >= 3 /\ IsLetter(arg[1]) /\ arg[2] = ":" /\ arg[3] = "\\"
      [] k = 3 -> Contains(arg, <<".", ".", "/">>)
      [] k = 4 -> Contains(arg, <<".", ".", "\\">>)
      [] k = 5 -> StartsWith(arg, <<".", ".">>)
      [] k = 6 -> StartsWith(arg, <<".", "/">>)
      [] k = 7 -> StartsWith(arg, <<"~", "/">>)
      [] k = 8 -> StartsWith(arg, <<"f", "i", "l", "e", ":", "/", "/">>)
      [] k = 9 -> \E ext \in Extensions : EndsWithI(arg, <<".">> \o ext)
      [] k = 10 -> \E d \in Dashes, f \in FileFlags : StartsWithI(arg, d \o f \o <<"=">>)
      [] k = 11 -> \E d \in Dashes, f \in FileFlags :
                      Len(arg) = Len(d \o f) /\ StartsWithI(arg, d \o f)

dangerousPatterns == 1..11

\* arg.includes('\0')
HasNullByte(arg) == \E i \in 1..Len(arg) : arg[i] = NulByte

\* the length ceiling of an argument
MaxArgLength == 1000

\* a ceiling that is itself rejected
TooLong_inclusive(arg) == Len(arg) >= MaxArgLength

\* arg.length > 1000
TooLong(arg) == Len(arg) > MaxArgLength

\* the body of the loop for one argument: "ok" or the error it raises
CheckArg(a) ==
    IF a.typeof # "string" THEN "ok"
    ELSE IF \E k \in dangerousPatterns : PatternTest(k, a.value) THEN "LocalFileAccess"
    ELSE IF HasNullByte(a.value) THEN "NullByte"
    ELSE IF TooLong(a.value) THEN "TooLong"
    ELSE "ok"

\* validateArgsForLocalFileAccess(args): the error of the first argument that
\* raises, "ok" when the loop ends
RECURSIVE validateArgsForLocalFileAccess(_)
validateArgsForLocalFileAccess(list) ==
    IF list = <<>> THEN "ok"
    ELSE IF CheckArg(Head(list)) # "ok" THEN CheckArg(Head(list))
    ELSE validateArgsForLocalFileAccess(Tail(list))

\* the number of characters of a long argument that its message shows
ShownLength == 100

\* new Error(`...`): the message of the error the loop body raises for the
\* argument a, as the fixed text of the template followed by the characters
\* substituted into it
ErrorMessage(a) ==
    CASE CheckArg(a) = "LocalFileAccess" ->
            <<"Argument contains potential local file access: ", "\"">>
                \o a.value \o <<"\"">>
      [] CheckArg(a) = "NullByte" ->
            <<"Argument contains null byte: ", "\"">> \o a.value \o <<"\"">>
      [] CheckArg(a) = "TooLong" ->
            <<"Argument is suspiciously long (", ToString(Len(a.value)),
              " characters): ", "\"">>
                \o SubSeq(a.value, 1, ShownLength) \o <<".", ".", ".", "\"">>
      [] OTHER -> <<>>

\* the message of the error validateArgsForLocalFileAccess(args) raises: that
\* of the first argument that raises; none when the loop ends
RECURSIVE ThrownMessage(_)
ThrownMessage(list) ==
    IF list = <<>> THEN <<>>
    ELSE IF CheckArg(Head(list)) # "ok" THEN ErrorMessage(Head(list))
    ELSE ThrownMessage(Tail(list))

\* arguments of the examples
ArgHello == Arg(<<"h", "e", "l", "l", "o">>)
ArgFlagValue == Arg(<<"-", "-", "f", "l", "a", "g", "=", "v", "a", "l", "u", "e">>)
ArgTraversal == Arg(<<".", ".", "/", "s", "e", "c", "r", "e", "t">>)
ArgUnixAbsolute == Arg(<<"/", "e", "t", "c", "/", "p", "a", "s", "s", "w", "d">>)
ArgWindowsAbsolute ==
    Arg(<<"C", ":", "\\", "W", "i", "n", "d", "o", "w", "s", "\\", "x">>)
ArgNullByte == Arg(<<"a", NulByte, "b">>)
ArgOfLength(n) == Arg([i \in 1..n |-> "a"])

\* arguments over the length ceiling that an earlier check of the loop body
\* rejects: an absolute path and one with a null byte
ArgLongPath == Arg(<<"/">> \o [i \in 1..MaxArgLength |-> "a"])
ArgLongNullByte == Arg(<<NulByte>> \o [i \in 1..MaxArgLength |-> "a"])

\* further arguments: one per pattern, and near misses
ArgSamples ==
    {ArgHello, ArgFlagValue, ArgTraversal, ArgUnixAbsolute, ArgWindowsAbsolute,
     ArgNullByte, ArgOfLength(MaxArgLength), ArgOfLength(MaxArgLength + 1),
     NonStringArg, ArgLongPath, ArgLongNullByte,
     Arg(<<"a", ".", ".", "\\", "b">>), Arg(<<".", ".">>), Arg(<<".", "/", "x">>),
     Arg(<<"~", "/", "x">>), Arg(<<"f", "i", "l", "e", ":", "/", "/", "x">>),
     Arg(<<"r", "u", "n", ".", "S", "H">>), Arg(<<"-", "-", "F", "i", "l", "e", "=", "x">>),
     Arg(<<"-", "o", "u", "t", "p", "u", "t">>), Arg(<<"/", "/", "x">>),
     Arg(<<"C", ":", "/", "x">>), Arg(<<"a", "/", ".", ".">>)}

\* longest argument list checked
MaxArgs == 2

ArgLists == UNION {[1..n -> ArgSamples] : n \in 0..MaxArgs}

\* the host hands an argument list to the guard
InitArgs ==
    /\ spawnArgs \in ArgLists
    /\ rejection = "none"
    /\ message = <<>>
    /\ NoSchema
    /\ NoNode
    /\ serverParams = CHOOSE c \in ServerParams : c.command # Null
    /\ transportType = "stdio"
    /\ _tools = Null
    /\ tools = <<>>
    /\ catalogs = {}
    /\ Environment({}, {})
    /\ proc = [p \in Procs |-> IdleProc]
    /\ last = NoCall
    /\ sessions = [s \in Sids |-> NoSession]
    /\ nClients = 0
    /\ nCalls = 0
    /\ nInit = 0
    /\ nInvokes = 0
    /\ listRequests = 0
    /\ discoveryOpens = 0
    /\ toolsAssigned = 0
    /\ initCompleted = FALSE

\* the guard runs on the list
validateArgs ==
    /\ rejection = "none"
    /\ rejection' = validateArgsForLocalFileAccess(spawnArgs)
    /\ message' = ThrownMessage(spawnArgs)
    /\ UNCHANGED <<spawnArgs, rootSchema, baseSchema, toolInput, parsed>>
    /\ UNCHANGED bridge
    /\ UNCHANGED customNode

NextArgs == validateArgs

SpecArgs == InitArgs /\ [][NextArgs]_vars

\* ------------------------------------------------------------ schema translation
\* JSON values, the arguments of a call and the members of an enum: the kind
\* of the value, then the value
Str(v) == <<"string", v>>
Num(v) == <<"number", v>>
Bool(v) == <<"boolean", v>>
Arr(v) == <<"array", v>>
Obj(v) == <<"object", v>>
Undefined == <<"undefined", <<>>>>
JsonType(value) == value[1]
Payload(value) == value[2]
EmptyObject == Obj([n \in {} |-> Undefined])

\* schema.f: Null when the shape has no field f
Field(schema, f) == IF f \in DOMAIN schema THEN schema[f] ELSE Null

\* schema.type
TypeOf(schema) == IF "type" \in DOMAIN schema THEN schema.type ELSE "undefined"

\* the values of additionalProperties: a boolean or a shape
AdditionalBool(b) == Some(<<"boolean", b>>)
AdditionalShape(schema) == Some(<<"object", schema>>)

\* the validators of zod
ZString == [zod |-> "string"]
ZEnum(values) == [zod |-> "enum", values |-> values]
ZNumber == [zod |-> "number"]
ZLiteral(v) == [zod |-> "literal", value |-> v]
ZUnion(options) == [zod |-> "union", options |-> options]
ZBoolean == [zod |-> "boolean"]
ZArray(element) == [zod |-> "array", element |-> element]
ZObject(shape, catchall) == [zod |-> "object", shape |-> shape, catchall |-> catchall]
ZRecord(valueType) == [zod |-> "record", valueType |-> valueType]
ZAny == [zod |-> "any"]

\* validator.describe(d): the validator with the description d
Describe(validator, d) ==
    [f \in DOMAIN validator \cup {"description"} |->
        IF f = "description" THEN d ELSE validator[f]]

\* validator.optional(): the wrapper is built with the definition of the
\* validator it wraps and so carries its description
ZOptional(inner) ==
    IF "description" \in DOMAIN inner
    THEN [zod |-> "optional", inner |-> inner, description |-> inner.description]
    ELSE [zod |-> "optional", inner |-> inner]

\* schema.description || ''
DescriptionOf(schema) ==
    IF "description" \in DOMAIN schema THEN schema.description ELSE ""

\* a test that forgets the length of the enum
HasEnum_present(schema) == Field(schema, "enum") # Null

\* a default that expects a string
Fallback_string == ZString

\* z.any(): the validator of the default case, of the items of an array
\* without items and of the values of an untyped record or catchall
Fallback == ZAny

\* Array.isArray(schema.enum) && schema.enum.length > 0
HasEnum(schema) == Field(schema, "enum") # Null /\ Len(schema.enum[1]) > 0

\* schema.required || []
RequiredOf(schema) ==
    IF Field(schema, "required") = Null THEN <<>> ELSE schema.required[1]

\* a loop that marks every property optional
MarkOptional_all(properties, required) ==
    [key \in DOMAIN properties |-> ZOptional(properties[key])]

\* the loop over Object.keys(properties): a property whose name is not in
\* required is wrapped in optional()
MarkOptional(properties, required) ==
    [key \in DOMAIN properties |->
        IF \E i \in 1..Len(required) : required[i] = key
        THEN properties[key]
        ELSE ZOptional(properties[key])]

\* the number case with a non-empty enum: one literal, or a union of literals
NumberEnum(enum) ==
    LET enumLiterals == [i \in 1..Len(enum) |-> ZLiteral(enum[i])] IN
    IF Len(enumLiterals) = 1 THEN enumLiterals[1] ELSE ZUnion(enumLiterals)

\* createPropertySchema(schema): the switch on schema.type; every case
\* returns its validator through describe(schema.description || '')
RECURSIVE createPropertySchema(_)
createPropertySchema(schema) ==
    LET type == TypeOf(schema)
        additional == Field(schema, "additionalProperties")
    IN
    Describe(
    IF type = "string"
    THEN IF HasEnum(schema) THEN ZEnum(schema.enum[1]) ELSE ZString
    ELSE IF type = "number"
    THEN IF HasEnum(schema) THEN NumberEnum(schema.enum[1]) ELSE ZNumber
    ELSE IF type = "boolean"
    THEN ZBoolean
    ELSE IF type = "array"
    THEN IF Field(schema, "items") # Null
         THEN ZArray(createPropertySchema(schema.items[1]))
         ELSE ZArray(Fallback)
    ELSE IF type = "object"
    THEN IF Field(schema, "properties") # Null
         THEN ZObject(MarkOptional([key \in DOMAIN schema.properties[1] |->
                                       createPropertySchema(schema.properties[1][key])],
                                   RequiredOf(schema)),
                      Null)
         ELSE IF additional # Null /\ JsonType(additional[1]) = "object"
         THEN ZRecord(createPropertySchema(Payload(additional[1])))
         ELSE ZRecord(Fallback)
    ELSE Fallback,
    DescriptionOf(schema))

\* createSchemaModel(inputSchema) past its root check: the root object,
\* built without describe, and its catchall
createSchemaModel(inputSchema) ==
    LET properties == [key \in DOMAIN inputSchema.properties[1] |->
                          createPropertySchema(inputSchema.properties[1][key])]
        additional == Field(inputSchema, "additionalProperties")
    IN
    ZObject(MarkOptional(properties, RequiredOf(inputSchema)),
            IF additional = Null THEN Null
            ELSE IF JsonType(additional[1]) = "boolean"
            THEN IF Payload(additional[1]) THEN Some(Fallback) ELSE Null
            ELSE Some(createPropertySchema(Payload(additional[1]))))

\* the field key of an object value: Undefined when the object has none
Get(object, key) == IF key \in DOMAIN object THEN object[key] ELSE Undefined

\* validator.safeParse(value).success, as zod decides it: an object strips
\* the keys its shape does not list unless it has a catchall, any accepts
\* undefined too
RECURSIVE Accepts(_, _)
Accepts(validator, value) ==
    LET zod == validator.zod IN
    IF zod = "any" THEN TRUE
    ELSE IF zod = "optional"
    THEN JsonType(value) = "undefined" \/ Accepts(validator.inner, value)
    ELSE IF zod = "string" THEN JsonType(value) = "string"
    ELSE IF zod = "number" THEN JsonType(value) = "number"
    ELSE IF zod = "boolean" THEN JsonType(value) = "boolean"
    ELSE IF zod \in {"enum", "literal"}
    THEN LET allowed == IF zod = "enum" THEN validator.values ELSE <<validator.value>> IN
         \E i \in 1..Len(allowed) :
            JsonType(allowed[i]) = JsonType(value) /\ Payload(allowed[i]) = Payload(value)
    ELSE IF zod = "union"
    THEN \E i \in 1..Len(validator.options) : Accepts(validator.options[i], value)
    ELSE IF zod = "array"
    THEN /\ JsonType(value) = "array"
         /\ \A i \in 1..Len(Payload(value)) : Accepts(validator.element, Payload(value)[i])
    ELSE IF zod = "record"
    THEN /\ JsonType(value) = "object"
         /\ \A key \in DOMAIN Payload(value) :
               Accepts(validator.valueType, Payload(value)[key])
    ELSE /\ JsonType(value) = "object"
         /\ \A key \in DOMAIN validator.shape :
               Accepts(validator.shape[key], Get(Payload(value), key))
         /\ validator.catchall # Null
               => \A key \in DOMAIN Payload(value) \ DOMAIN validator.shape :
                     Accepts(validator.catchall[1], Payload(value)[key])

\* shapes of one property: every case of the switch, with and without the
\* optional fields
StringShape == [type |-> "string"]
NumberShape == [type |-> "number"]
NestedProperties == Some([y |-> StringShape])
PropertyShapes ==
    {StringShape,
     [type |-> "string", enum |-> Some(<<Str("a")>>)],
     [type |-> "string", enum |-> Some(<<>>)],
     NumberShape,
     [type |-> "number", enum |-> Some(<<Num(1)>>)],
     [type |-> "number", enum |-> Some(<<Num(1), Num(2)>>)],
     [type |-> "number", enum |-> Some(<<>>)],
     [type |-> "boolean"],
     [type |-> "array", items |-> Some(StringShape)],
     [type |-> "array"],
     [type |-> "object", properties |-> NestedProperties, required |-> Some(<<"y">>)],
     [type |-> "object", properties |-> NestedProperties],
     [type |-> "object", properties |-> NestedProperties,
      additionalProperties |-> AdditionalBool(TRUE)],
     [type |-> "object", properties |-> NestedProperties,
      additionalProperties |-> AdditionalShape(NumberShape)],
     [type |-> "object"],
     [type |-> "object", additionalProperties |-> AdditionalBool(TRUE)],
     [type |-> "object", additionalProperties |-> AdditionalBool(FALSE)],
     [type |-> "object", additionalProperties |-> AdditionalShape(NumberShape)],
     [type |-> "integer"],
     [type |-> "null"],
     [description |-> "d"],
     [type |-> "string", description |-> "ds"],
     [type |-> "array", items |-> Some([type |-> "number", description |-> "di"]),
      description |-> "da"],
     [type |-> "object", properties |-> Some([y |-> [type |-> "string", description |-> "dy"]]),
      description |-> "do"],
     [type |-> "object", additionalProperties |-> AdditionalShape([type |-> "number"]),
      description |-> "dr"]}

\* root shapes with the property x
RootSchemas ==
    {[type |-> "object", properties |-> Some([x |-> shape]), required |-> required,
      additionalProperties |-> additional] :
        shape \in PropertyShapes,
        required \in {Null, Some(<<>>), Some(<<"x">>)},
        additional \in {Null, AdditionalBool(TRUE), AdditionalBool(FALSE),
                        AdditionalShape(NumberShape)}}
    \cup {[type |-> shape.type, properties |-> shape.properties, required |-> Null,
           additionalProperties |-> additional] :
            shape \in RootShapes, additional \in {Null, AdditionalBool(TRUE)}}
    \cup {[type |-> "object", properties |-> Some([x |-> shape]), required |-> required,
           additionalProperties |-> Null, description |-> "root"] :
            shape \in {StringShape, [type |-> "string", description |-> "ds"]},
            required \in {Null, Some(<<"x">>)}}

\* values of one field
FieldValues ==
    {Str("a"), Str("b"), Str("v"), Num(1), Num(2), Num(3), Bool(TRUE),
     Arr(<<>>), Arr(<<Str("a")>>), Arr(<<Num(1)>>),
     EmptyObject, Obj([y |-> Str("s")]), Obj([y |-> Num(1)]), Obj([w |-> Str("s")]),
     Obj([y |-> Str("s"), w |-> Str("s")]), Obj([y |-> Str("s"), w |-> Num(1)])}

\* arguments of a call: with and without x, with and without a field z that
\* no shape lists
ToolInputs ==
    {EmptyObject, Str("a")}
    \cup {Obj([x |-> v]) : v \in FieldValues}
    \cup {Obj([x |-> v, z |-> e]) : v \in FieldValues, e \in {Str("e"), Num(7)}}
    \cup {Obj([z |-> e]) : e \in {Str("e"), Num(7)}}

\* a shape and an argument are handed to the translation
InitSchema ==
    /\ rootSchema \in RootSchemas
    /\ toolInput \in ToolInputs
    /\ baseSchema = Null
    /\ parsed = "none"
    /\ NoArgs
    /\ NoNode
    /\ serverParams = CHOOSE c \in ServerParams : c.command # Null
    /\ transportType = "stdio"
    /\ _tools = Null
    /\ tools = <<>>
    /\ catalogs = {}
    /\ Environment({}, {})
    /\ proc = [p \in Procs |-> IdleProc]
    /\ last = NoCall
    /\ sessions = [s \in Sids |-> NoSession]
    /\ nClients = 0
    /\ nCalls = 0
    /\ nInit = 0
    /\ nInvokes = 0
    /\ listRequests = 0
    /\ discoveryOpens = 0
    /\ toolsAssigned = 0
    /\ initCompleted = FALSE

\* a translation that stores the default of the required list in its input
inputSchemaAfter_defaulted(inputSchema) ==
    [inputSchema EXCEPT !.required = Some(RequiredOf(inputSchema))]

\* the shape description when createSchemaModel returns: the function reads
\* it and assigns only to the objects it created itself (the accumulator of
\* reduce, properties, baseSchema)
inputSchemaAfter(inputSchema) == inputSchema

\* createSchemaModel(rootSchema) raises or returns the validator
translate ==
    /\ parsed = "none"
    /\ IF createSchemaModelThrows(rootSchema)
       THEN parsed' = "thrown" /\ UNCHANGED <<baseSchema, rootSchema>>
       ELSE /\ parsed' = "built"
            /\ baseSchema' = Some(createSchemaModel(rootSchema))
            /\ rootSchema' = inputSchemaAfter(rootSchema)
    /\ UNCHANGED <<spawnArgs, rejection, message, toolInput>>
    /\ UNCHANGED bridge
    /\ UNCHANGED customNode

\* the validator of the adapter parses the argument of a call
parse ==
    /\ parsed = "built"
    /\ parsed' = IF Accepts(baseSchema[1], toolInput) THEN "accepted" ELSE "rejected"
    /\ UNCHANGED <<spawnArgs, rejection, message, rootSchema, baseSchema, toolInput>>
    /\ UNCHANGED bridge
    /\ UNCHANGED customNode

NextSchema == translate \/ parse

SpecSchema == InitSchema /\ [][NextSchema]_vars

\* ---------------------------------------------------------------- Custom_MCP
\* constructions of MCPToolkit objects by the node in one behaviour
MaxToolkits == 3

\* names of operations, each the sequence of its characters
NameSearch == <<"s", "e", "a", "r", "c", "h">>
NameFetch == <<"f", "e", "t", "c", "h">>
NameEcho == <<"E", "c", "h", "o">>
NameAdd == <<"a", "d", "d">>
NameError == <<"e", "r", "r", "o", "r">>

\* the descriptor lists the server of the node may answer with: none, and
\* four operations of which the second has an invalid root shape
NodeCatalogs ==
    {<<>>,
     <<[name |-> NameSearch, inputSchema |-> ShapeObjX],
       [name |-> NameFetch, inputSchema |-> ShapeString],
       [name |-> NameEcho, inputSchema |-> ShapeObjEmpty],
       [name |-> NameAdd, inputSchema |-> ShapeObjX]>>}

\* the mcpServerConfig input: absent, the empty string, a string that is no
\* object literal, the text of a configuration, or a configuration object
ConfigText(params) == <<"text", params>>
ConfigObject(params) == <<"object", params>>
NodeConfigs ==
    {<<"undefined", <<>>>>, <<"string", <<>>>>, <<"string", <<"{">>>>,
     ConfigText(CHOOSE c \in ServerParams : c.command # Null),
     ConfigObject(CHOOSE c \in ServerParams :
                     c.command = Null /\ c.url = Some("http://s") /\ c.headers = Null),
     ConfigText(CHOOSE c \in ServerParams :
                   c.command = Null /\ c.url = Null /\ c.headers = Null)}

\* the mcpActions input: absent, an array of names, the JSON text of an
\* array of names, or names separated by commas
NodeActions ==
    {<<"undefined", <<>>>>, <<"array", <<NameAdd>>>>,
     <<"json", <<NameSearch, NameEcho>>>>, <<"csv", <<NameSearch, NameFetch>>>>}

\* the inputs of a node: every selection with the process configuration,
\* one selection with the other configurations
NodeDatas ==
    {data \in [mcpServerConfig : NodeConfigs, mcpActions : NodeActions] :
        \/ data.mcpServerConfig[1] = "text" /\ data.mcpServerConfig[2].command # Null
        \/ data.mcpActions[1] = "json"}

\* !mcpServerConfig
ConfigFalsy(config) == config[1] = "undefined" \/ config = <<"string", <<>>>>

\* the serverParams createToolkit obtains: the object itself, or
\* JSON.parse(convertToValidJSONString(text)), which raises (Null) on a
\* string that is no object literal
ParseConfig(config) ==
    IF config[1] \in {"text", "object"} THEN Some(config[2]) ELSE Null

\* createToolkit before its await: the error it raises, "none" when it goes
\* on to construct the toolkit
createToolkitThrows(data) ==
    IF ConfigFalsy(data.mcpServerConfig) THEN "MCP Server Config is required"
    ELSE IF ParseConfig(data.mcpServerConfig) = Null THEN "Invalid MCP Server Config"
    ELSE "none"

\* the errors toolkit.initialize() may raise for a configuration: the ones of
\* createClient, of the 'tools/list' request and of close
InitializeErrors(params) ==
    IF TransportTypeOf(params) = "stdio" THEN {"StdioConnectError", "ListError", "CloseError"}
    ELSE IF UrlMissing(params) THEN {"ConfigError"}
    ELSE IF UrlInvalid(params) THEN {"InvalidURL"}
    ELSE {"SseConnectError", "ListError", "CloseError"}

\* initialize() can succeed for the configuration
InitializeCanSucceed(params) ==
    TransportTypeOf(params) = "stdio" \/ ~(UrlMissing(params) \/ UrlInvalid(params))

\* the mcpActions list of init: [] for a falsy input, the array, the array
\* JSON.parse gives, or split(',') with trim when JSON.parse raises
mcpActionsOf(data) ==
    IF data.mcpActions[1] = "undefined" THEN <<>> ELSE data.mcpActions[2]

\* a filter that keeps every adapter
SelectedTools_all(adapters, mcpActions) == adapters

\* tools.filter((tool) => mcpActions.includes(tool.name))
RECURSIVE SelectedTools(_, _)
SelectedTools(adapters, mcpActions) ==
    IF adapters = <<>> THEN <<>>
    ELSE (IF \E i \in 1..Len(mcpActions) : mcpActions[i] = Head(adapters).name
          THEN <<Head(adapters)>> ELSE <<>>)
            \o SelectedTools(Tail(adapters), mcpActions)

\* the place of a character in the collation of localeCompare: letters by
\* the alphabet whatever their case, other characters before them
Rank(c) == IF IsLetter(c) THEN CHOOSE i \in 1..26 : ToLower(c) = LowerCase[i] ELSE 0

\* a.localeCompare(b) < 0: the first difference of the letters decides, then
\* the length, then lower case before upper case
RECURSIVE LettersLess(_, _)
LettersLess(a, b) ==
    IF a = <<>> THEN b # <<>>
    ELSE IF b = <<>> THEN FALSE
    ELSE IF Rank(Head(a)) # Rank(Head(b)) THEN Rank(Head(a)) < Rank(Head(b))
    ELSE LettersLess(Tail(a), Tail(b))
RECURSIVE CaseLess(_, _)
CaseLess(a, b) ==
    IF a = <<>> \/ b = <<>> THEN FALSE
    ELSE IF Head(a) # Head(b) THEN Head(a) = ToLower(Head(a))
    ELSE CaseLess(Tail(a), Tail(b))
localeCompareLess(a, b) ==
    LettersLess(a, b) \/ (~LettersLess(b, a) /\ CaseLess(a, b))

\* a listing that keeps the order of the toolkit
SortByName_unsorted(adapters) == adapters

\* toolset.sort((a, b) => a.name.localeCompare(b.name)): a stable sort
RECURSIVE SortByName(_)
SortByName(adapters) ==
    IF adapters = <<>> THEN <<>>
    ELSE LET rest == SortByName(SubSeq(adapters, 1, Len(adapters) - 1))
             x == adapters[Len(adapters)]
             k == Cardinality({i \in 1..Len(rest) : ~localeCompareLess(x.name, rest[i].name)})
         IN SubSeq(rest, 1, k) \o <<x>> \o SubSeq(rest, k + 1, Len(rest))

\* name.toUpperCase()
ToUpper(c) ==
    IF \E i \in 1..26 : c = LowerCase[i]
    THEN UpperCase[CHOOSE i \in 1..26 : c = LowerCase[i]]
    ELSE c
toUpperCase(chars) == [i \in 1..Len(chars) |-> ToUpper(chars[i])]

\* the options listActions returns for the adapters of the toolkit
ActionOptions(adapters) ==
    LET toolset == SortByName(adapters) IN
    [i \in 1..Len(toolset) |-> [label |-> toUpperCase(toolset[i].name), name |-> toolset[i].name]]

\* the option of the catch block of listActions
NoAvailableActions == <<[label |-> <<"No Available Actions">>, name |-> NameError]>>

\* a caller of the node is free to start a call
NodeFree(p) == nodeProc[p].pc = "idle"

\* the node call of p settles: init raises the error, listActions catches
\* it and returns the placeholder
NodeRaise(p, op, error, cause) ==
    /\ nodeProc' = [nodeProc EXCEPT ![p] = NodeIdle]
    /\ nodeLast' = [op |-> op, caller |-> p,
                    result |-> IF op = "init" THEN error ELSE "ok",
                    cause |-> cause,
                    value |-> IF op = "init" THEN <<>> ELSE NoAvailableActions,
                    toolkit |-> Null]

\* createToolkit(nodeData) up to its await of toolkit.initialize(), called
\* from a node call of kind op
createToolkitStart(p, op) ==
    LET thrown == createToolkitThrows(nodeData) IN
    IF thrown # "none"
    THEN NodeRaise(p, op, thrown, thrown) /\ UNCHANGED nToolkits
    ELSE /\ nToolkits' = nToolkits + 1
         /\ nodeProc' = [nodeProc EXCEPT ![p] = [op |-> op, pc |-> "createToolkit",
                                                  id |-> nToolkits + 1, toolkit |-> Null]]
         /\ nodeLast' = NoNodeCall

\* init(nodeData) up to its first await: the toolkit held so far is dropped
\* (an MCPToolkit has no client field to close), then createToolkit runs
Custom_MCP_init(p) ==
    /\ NodeFree(p)
    /\ nToolkits < MaxToolkits
    /\ nodeToolkit' = Null
    /\ createToolkitStart(p, "init")
    /\ UNCHANGED nodeData
    /\ UNCHANGED bridge
    /\ UNCHANGED pure

\* listActions(nodeData) up to the await in getTools
listActions(p) ==
    /\ NodeFree(p)
    /\ nToolkits < MaxToolkits
    /\ createToolkitStart(p, "listActions")
    /\ UNCHANGED <<nodeData, nodeToolkit>>
    /\ UNCHANGED bridge
    /\ UNCHANGED pure

\* await toolkit.initialize() settles inside createToolkit.  On an error the
\* catch block raises 'Invalid MCP Server Config'; otherwise init stores the
\* toolkit and awaits getTools(), and listActions sorts and maps its tools
createToolkit_initialize(p) ==
    LET rec == nodeProc[p]
        params == ParseConfig(nodeData.mcpServerConfig)[1]
    IN
    /\ rec.pc = "createToolkit"
    /\ \/ \E error \in InitializeErrors(params) :
            /\ NodeRaise(p, rec.op, "Invalid MCP Server Config", error)
            /\ UNCHANGED nodeToolkit
       \/ /\ InitializeCanSucceed(params)
          /\ \E list \in NodeCatalogs :
               LET created == [id |-> rec.id, tools |-> Successes(list)] IN
               IF rec.op = "init"
               THEN /\ nodeToolkit' = Some(created)
                    /\ nodeProc' = [nodeProc EXCEPT ![p] = [rec EXCEPT !.pc = "getTools",
                                                                       !.toolkit = Some(created)]]
                    /\ nodeLast' = NoNodeCall
               ELSE /\ nodeProc' = [nodeProc EXCEPT ![p] = NodeIdle]
                    /\ nodeLast' = [op |-> "listActions", caller |-> p, result |-> "ok",
                                    cause |-> "none", value |-> ActionOptions(created.tools),
                                    toolkit |-> Some(created)]
                    /\ UNCHANGED nodeToolkit
    /\ UNCHANGED <<nodeData, nToolkits>>
    /\ UNCHANGED bridge
    /\ UNCHANGED pure

\* await toolkit.getTools() settles: init returns the selected adapters
Custom_MCP_init_getTools(p) ==
    LET rec == nodeProc[p] IN
    /\ rec.pc = "getTools"
    /\ nodeProc' = [nodeProc EXCEPT ![p] = NodeIdle]
    /\ nodeLast' = [op |-> "init", caller |-> p, result |-> "ok", cause |-> "none",
                    value |-> SelectedTools(rec.toolkit[1].tools, mcpActionsOf(nodeData)),
                    toolkit |-> rec.toolkit]
    /\ UNCHANGED <<nodeData, nodeToolkit, nToolkits>>
    /\ UNCHANGED bridge
    /\ UNCHANGED pure

\* cleanup(): the toolkit held is dropped
Custom_MCP_cleanup ==
    /\ nodeLast.op # "cleanup"
    /\ nodeToolkit' = Null
    /\ nodeLast' = [NoNodeCall EXCEPT !.op = "cleanup", !.result = "ok"]
    /\ UNCHANGED <<nodeData, nodeProc, nToolkits>>
    /\ UNCHANGED bridge
    /\ UNCHANGED pure

\* a node with its inputs, its toolkit field still null
InitNode ==
    /\ nodeData \in NodeDatas
    /\ nodeToolkit = Null
    /\ nodeProc = [p \in Procs |-> NodeIdle]
    /\ nodeLast = NoNodeCall
    /\ nToolkits = 0
    /\ NoArgs
    /\ NoSchema
    /\ Environment({}, {})
    /\ serverParams = CHOOSE c \in ServerParams : c.command # Null
    /\ transportType = "stdio"
    /\ _tools = Null
    /\ tools = <<>>
    /\ catalogs = {}
    /\ proc = [p \in Procs |-> IdleProc]
    /\ last = NoCall
    /\ sessions = [s \in Sids |-> NoSession]
    /\ nClients = 0
    /\ nCalls = 0
    /\ nInit = 0
    /\ nInvokes = 0
    /\ listRequests = 0
    /\ discoveryOpens = 0
    /\ toolsAssigned = 0
    /\ initCompleted = FALSE

NextNode ==
    \/ \E p \in Procs : Custom_MCP_init(p)
    \/ \E p \in Procs : listActions(p)
    \/ \E p \in Procs : createToolkit_initialize(p)
    \/ \E p \in Procs : Custom_MCP_init_getTools(p)
    \/ Custom_MCP_cleanup

SpecNode == InitNode /\ [][NextNode]_vars

Next ==
    \/ \E p \in Procs : initialize(p)
    \/ \E p \in Procs : createClient_connect(p)
    \/ \E p \in Procs : initialize_list(p)
    \/ \E p \in Procs : initialize_get_tools(p)
    \/ \E p \in Procs : get_tools(p)
    \/ \E p \in Procs, i \in 1..MaxTools : MCPTool_func(p, i)
    \/ \E p \in Procs : MCPTool_call(p)
    \/ \E p \in Procs : client_close(p)

Spec == Init /\ [][Next]_vars

\* the same operations on process configurations
SpecStdio == InitStdio /\ [][Next]_vars
SpecInvoke == InitInvoke /\ [][Next]_vars

\* ================================================================ properties
\* no caller is inside a call
Quiescent == \A p \in Procs : Free(p)

\* the session s is held by the try block of an in-flight call of kind op
HeldBy(s, op) ==
    \E p \in Procs : proc[p].op = op /\ proc[p].client = s

\* the Client objects built for a call of kind op
SessionsOf(op) == {s \in Sids : op \in sessions[s].ops}

\* C1: a session acquired by an adapter invocation is closed before the
\* invocation returns or raises, whether 'tools/call' succeeded or failed;
\* once every invocation has finished no invocation session is open.
C1_InvocationClosesSession ==
    /\ (last.op = "invoke" /\ last.session # "none") => last.session = "closed"
    /\ \A s \in SessionsOf("invoke") :
         sessions[s].state = "open" => HeldBy(s, "invoke")
    /\ Quiescent => \A s \in SessionsOf("invoke") : sessions[s].state # "open"

\* an invocation whose 'tools/call' failed has finished with its session closed
C1_Witness ==
    /\ last.op = "invoke"
    /\ last.pending = "CallError"
    /\ last.session = "closed"

\* C2: when initialize() finishes, by returning or by failing in 'tools/list',
\* the session it opened is closed, and no adapter invocation ever uses a
\* session that initialize() opened.
C2_InitializeClosesSession ==
    /\ (last.op = "initialize" /\ last.session # "none") => last.session = "closed"
    /\ \A s \in SessionsOf("initialize") :
         /\ sessions[s].state = "open" => HeldBy(s, "initialize")
         /\ sessions[s].ops = {"initialize"}
    /\ \A p \in Procs :
         (proc[p].op = "invoke" /\ proc[p].cc # 0)
            => proc[p].cc \notin SessionsOf("initialize")

\* an initialize() whose 'tools/list' failed has finished with its session closed
C2_Witness ==
    /\ last.op = "initialize"
    /\ last.pending = "ListError"
    /\ last.session = "closed"

\* C3: a call of initialize() made when a catalog exists returns at once:
\* it creates no client, issues no 'tools/list' and leaves _tools and tools
\* as they are.
C3_InitializeIdempotent ==
    [][\A p \in Procs :
         (_tools # Null /\ initialize(p))
            => /\ UNCHANGED <<_tools, tools, sessions, nClients, discovery>>
               /\ Free(p)'
               /\ last'.op = "initialize"
               /\ last'.result = "ok"]_vars

\* an initialize() call has returned without having held a client
C3_Witness ==
    /\ last.op = "initialize"
    /\ last.result = "ok"
    /\ last.session = "none"
    /\ _tools # Null

\* C4: over any interleaving of initialize() calls on one toolkit at most one
\* discovery session is opened, at most one 'tools/list' request is issued
\* and _tools is assigned at most once.
C4_CatalogBuiltOnce ==
    /\ discoveryOpens <= 1
    /\ listRequests <= 1
    /\ toolsAssigned <= 1

\* C5: whenever discovery returned a descriptor list, initialize() succeeds
\* and tools holds exactly the adapters of the descriptors whose root shape
\* translates.
C5_PartialCatalog ==
    (last.op = "initialize" /\ last.session # "none" /\ last.pending = "none")
       => /\ last.result = "ok"
          /\ nInit = 1 => tools = Successes(_tools[1])

\* C6 as stated: get_tools() raises the state error whenever no initialize()
\* call has completed yet.
C6_StateErrorBeforeCompletion ==
    [][\A p \in Procs :
         (~initCompleted /\ get_tools(p)) => last'.result = "StateError"]_vars

\* C6 amended: get_tools() raises the state error exactly when no
\* 'tools/list' response has been stored yet, which covers every call made
\* while the first initialize() is suspended in connect or in 'tools/list'.
C6_StateErrorBeforeDiscovery ==
    [][\A p \in Procs :
         get_tools(p)
            => /\ last'.op = "get_tools"
               /\ last'.result = "StateError" <=> toolsAssigned = 0]_vars

\* get_tools() has raised the state error while initialize() is in progress
C6_Witness ==
    /\ last.op = "get_tools"
    /\ last.result = "StateError"
    /\ \E q \in Procs : /\ proc[q].op = "initialize"
                        /\ proc[q].pc \in {"connect", "list"}

\* C7: with a network configuration without url every createClient call
\* raises the configuration error at once, constructs no transport and makes
\* no connect attempt.
C7_MissingUrl ==
    (transportType = "sse" /\ serverParams.url = Null)
       => /\ Quiescent
          /\ last.op \in {"initialize", "invoke"}
                => /\ last.result = "ConfigError"
                   /\ last.attempts = <<>>
                   /\ last.ntransports = 0
                   /\ last.session = "none"
          /\ \A s \in Sids : sessions[s].state = "unused"

\* a createClient call on a configuration without url has raised
C7_Witness ==
    /\ transportType = "sse" /\ serverParams.url = Null
    /\ last.op = "initialize"
    /\ last.result = "ConfigError"
    /\ nClients > 0

\* the connect attempts a of one network createClient call are in order
Negotiated(a) ==
    /\ Len(a) <= 2
    /\ Len(a) >= 1 => /\ a[1].proto = "http"
                      /\ a[1].headers = serverParams.headers
    /\ Len(a) = 2 => /\ a[1].outcome = "HttpConnectError"
                     /\ a[2].proto = "sse"
                     /\ a[2].headers = a[1].headers
    /\ (Len(a) >= 1 /\ a[1].outcome = "HttpConnectError") => Len(a) = 2

\* C8: a network createClient attempts streamable HTTP first; when that
\* fails it attempts SSE once with the same configured headers before any
\* error is surfaced; when both fail the SSE error is surfaced; there is no
\* third attempt.
C8_NegotiationOrder ==
    transportType = "sse" =>
      /\ \A p \in Procs :
           /\ Negotiated(proc[p].attempts)
           /\ proc[p].pc = "connect"
                 => proc[p].attempts[Len(proc[p].attempts)].outcome = "pending"
      /\ Negotiated(last.attempts)
      /\ last.result # "HttpConnectError"
      /\ last.attempts # <<>>
            => /\ Len(last.attempts) = 2
               /\ last.attempts[2].outcome = "SseConnectError"
               /\ last.result = "SseConnectError"

\* both attempts of a createClient call with configured headers have failed
C8_Witness ==
    /\ Len(last.attempts) = 2
    /\ last.attempts[1].headers = Some("h1")
    /\ last.attempts[2].headers = Some("h1")
    /\ last.attempts[2].outcome = "SseConnectError"
    /\ last.result = "SseConnectError"

\* C9: createClient hands every Client object to one call only, so no two
\* invocations share a session and none uses the discovery session; after one
\* initialize() that discovered and N finished invocations, createClient has
\* run N + 1 times.
C9_SessionIsolation ==
    /\ \A s \in Sids : sessions[s].handed <= 1
    /\ \A p, q \in Procs :
         (p # q /\ proc[p].cc # 0) => proc[p].cc # proc[q].cc
    /\ \A p \in Procs :
         (proc[p].op = "invoke" /\ proc[p].cc # 0)
            => sessions[proc[p].cc].ops = {"invoke"}
    /\ (Quiescent /\ nInit = 1) => nClients = nInvokes + 1

\* two invocations are in flight at once, each waiting for its 'tools/call'
C9_Witness ==
    \E p, q \in Procs :
       /\ p # q
       /\ proc[p].op = "invoke" /\ proc[p].pc = "call"
       /\ proc[q].op = "invoke" /\ proc[q].pc = "call"
       /\ nInit = 1

\* C10: when 'tools/call' fails the caller receives exactly that error, also
\* when the close that follows fails, and exactly one 'tools/call' was issued.
C10_RemoteErrorUnchanged ==
    (last.op = "invoke" /\ last.pending = "CallError")
       => (last.result = "CallError" /\ last.nreq = 1)

\* the outcome c of an initialize() call that met a configuration error, a
\* connection failure or a failure of its 'tools/list' request
InitFailure(c) ==
    /\ c.op = "initialize"
    /\ \/ c.result \in {"ConfigError", "InvalidURL", "StdioConnectError", "SseConnectError"}
       \/ c.pending = "ListError"

\* C11: an initialize() that met a configuration error, a connection failure
\* or a 'tools/list' failure raises and assigns neither _tools nor tools, so
\* after a sole attempt the catalog is absent and get_tools() still meets its
\* state check; an initialize() called after a failed attempt runs
\* createClient again, on a new Client object.
C11_FailedInitializeAborts ==
    [][/\ InitFailure(last')
          => /\ last'.result \notin {"ok", "none"}
             /\ UNCHANGED <<_tools, tools>>
             /\ nInit' = 1 => (_tools' = Null /\ tools' = <<>>)
       /\ \A p \in Procs :
            (_tools = Null /\ nInit >= 1 /\ initialize(p))
               => /\ nInit' = nInit + 1
                  /\ nClients' = nClients + 1
                  /\ \/ /\ proc'[p].pc = "connect"
                        /\ sessions'[proc'[p].cc] =
                              [state |-> "connecting", ops |-> {"initialize"}, handed |-> 1]
                     \/ last'.result \in {"ConfigError", "InvalidURL"}]_vars

\* a second initialize() is waiting for its 'tools/list' after the first one
\* failed and left no catalog
C11_Witness ==
    /\ nInit = 2
    /\ nCalls = 2
    /\ _tools = Null
    /\ toolsAssigned = 0
    /\ listRequests = 2
    /\ \E p \in Procs :
         /\ proc[p].op = "initialize" /\ proc[p].pc = "list"
         /\ \A q \in Procs \ {p} : Free(q)

\* C12: an adapter call that fails leaves _tools, tools and the connection
\* configuration as they are, and leaves every other call in flight, with its
\* session, as it is.
C12_FailedInvocationLocal ==
    [][\A p \in Procs :
         (proc[p].op = "invoke" /\ Free(p)' /\ last'.result # "ok")
            => /\ UNCHANGED <<serverParams, transportType, _tools, tools>>
               /\ \A q \in Procs \ {p} :
                    /\ proc'[q] = proc[q]
                    /\ proc[q].cc # 0
                          => sessions'[proc[q].cc] = sessions[proc[q].cc]]_vars

\* an adapter call has failed on its 'tools/call' while another adapter call
\* waits for its own
C12_Witness ==
    /\ last.op = "invoke"
    /\ last.pending = "CallError"
    /\ last.result # "ok"
    /\ \E q \in Procs : proc[q].op = "invoke" /\ proc[q].pc = "call"

\* spawnArgs holds the argument a at some position
Holds(a) == \E i \in 1..Len(spawnArgs) : spawnArgs[i] = a

\* C15: the guard rejects every list that holds '../secret', '/etc/passwd',
\* 'C:\Windows\x', an argument of 1001 characters or an argument with a null
\* byte, whatever else the list holds; it accepts every list made of 'hello'
\* and '--flag=value'; an argument of 1000 characters is not rejected for its
\* length.
C15_GuardExamples ==
    rejection # "none" =>
       /\ (\E a \in {ArgTraversal, ArgUnixAbsolute, ArgWindowsAbsolute, ArgNullByte,
                     ArgOfLength(MaxArgLength + 1)} : Holds(a))
             => rejection # "ok"
       /\ (\A i \in 1..Len(spawnArgs) : spawnArgs[i] \in {ArgHello, ArgFlagValue})
             => rejection = "ok"
       /\ (\A i \in 1..Len(spawnArgs) :
              spawnArgs[i] \in {ArgHello, ArgOfLength(MaxArgLength)})
             => rejection = "ok"
       /\ spawnArgs = <<ArgOfLength(MaxArgLength + 1)>> => rejection = "TooLong"
       /\ spawnArgs = <<ArgNullByte>> => rejection = "NullByte"

\* the guard has accepted a list that holds an argument of 1000 characters
C15_Witness ==
    /\ rejection = "ok"
    /\ Holds(ArgOfLength(MaxArgLength))
    /\ Holds(ArgHello)

\* the process transports under construction or connecting
Spawns ==
    {proc[p].attempts[1].spawned :
        p \in {q \in Procs : proc[q].attempts # <<>> /\ proc[q].attempts[1].proto = "stdio"}}

\* C13: the env handed to the spawned process always has a PATH: the
\* configured one when the configured env has one, the host's otherwise.
C13_ConfiguredPathKept ==
    \A params \in Spawns :
       /\ "PATH" \in DOMAIN params.env
       /\ params.env["PATH"] =
             IF serverParams.env # Null /\ "PATH" \in DOMAIN serverParams.env[1]
             THEN serverParams.env[1]["PATH"]
             ELSE ProcessEnvPath

\* C14: with a process configuration whose args the guard rejects, no
\* process transport is ever constructed and every initialize() raises the
\* rejection.
C14_RejectedArgsNeverSpawn ==
    (transportType = "stdio" /\ validateArgsForLocalFileAccess(serverParams.args) # "ok")
       => /\ Spawns = {}
          /\ \A p \in Procs : proc[p].ntransports = 0
          /\ last.op = "initialize" => last.result = "LocalFileAccess"

\* the validator under an optional() mark
Unwrap(validator) == IF validator.zod = "optional" THEN validator.inner ELSE validator

\* the name key is in the required list of the shape
Listed(schema, key) ==
    Field(schema, "required") # Null
       /\ \E i \in 1..Len(schema.required[1]) : schema.required[1][i] = key

\* the root shape lists the property x and the argument is an object whose
\* only field is x
OnlyX ==
    /\ rootSchema.properties # Null
    /\ "x" \in DOMAIN rootSchema.properties[1]
    /\ JsonType(toolInput) = "object"
    /\ DOMAIN Payload(toolInput) = {"x"}

\* the shape of the property x, its validator and the value the argument
\* gives it
ShapeOfX == rootSchema.properties[1]["x"]
ValidatorOfX == Unwrap(baseSchema[1].shape["x"])
ValueOfX == Payload(toolInput)["x"]

\* C16 as stated: createSchemaModel returns a validator exactly for a root of type
\* 'object' whose properties are present and not empty, and raises for every
\* other root.
C16_RootNeedsNonEmptyProperties ==
    parsed # "none" =>
       (parsed # "thrown"
          <=> /\ rootSchema.type = "object"
              /\ rootSchema.properties # Null
              /\ DOMAIN rootSchema.properties[1] # {})

\* C16 amended: createSchemaModel returns a validator exactly for a root of
\* type 'object' whose properties are present, empty or not, and raises for
\* every other root.
C16_RootNeedsProperties ==
    parsed # "none" =>
       (parsed # "thrown"
          <=> (rootSchema.type = "object" /\ rootSchema.properties # Null))

\* a validator has been returned for a root of type 'object' with an empty
\* properties map
C16_Witness ==
    /\ parsed = "built"
    /\ rootSchema.type = "object"
    /\ rootSchema.properties # Null
    /\ DOMAIN rootSchema.properties[1] = {}
    /\ baseSchema[1].shape = <<>>

\* the fields of the object that the shape does not list are permitted by
\* the additionalProperties of the shape
ExtrasPermitted(schema, object) ==
    LET additional == Field(schema, "additionalProperties")
        extras == DOMAIN object \ DOMAIN schema.properties[1]
    IN
    IF additional # Null /\ JsonType(additional[1]) = "boolean" /\ Payload(additional[1])
    THEN TRUE
    ELSE IF additional # Null /\ JsonType(additional[1]) = "object"
    THEN \A key \in extras :
            Accepts(createPropertySchema(Payload(additional[1])), object[key])
    ELSE extras = {}

\* C17: an argument the validator accepts obeys the additional-fields policy
\* of the root shape and of the nested object shape with properties: extra
\* fields only where additionalProperties is true or a shape they match.
C17_AdditionalFieldsPolicy ==
    parsed = "accepted" =>
       /\ ExtrasPermitted(rootSchema, Payload(toolInput))
       /\ ("x" \in DOMAIN rootSchema.properties[1]
             /\ "x" \in DOMAIN Payload(toolInput)
             /\ TypeOf(ShapeOfX) = "object"
             /\ Field(ShapeOfX, "properties") # Null)
            => ExtrasPermitted(ShapeOfX, Payload(ValueOfX))

\* C18: in the validator of an object shape, root or nested, a property is
\* marked optional exactly when its name is not in the required list; an
\* argument without x is rejected exactly when x is in the list (for an x
\* whose own validator rejects an absent value); with properties {x: string}
\* and no x required both {} and {x:'v'} are accepted, and with x required {}
\* is rejected.
C18_RequiredOptional ==
    parsed \notin {"none", "thrown"} =>
       LET shape == baseSchema[1].shape IN
       /\ \A key \in DOMAIN shape :
            /\ shape[key].zod = "optional" <=> ~Listed(rootSchema, key)
            /\ Unwrap(shape[key]).zod = "object"
                  => \A inner \in DOMAIN Unwrap(shape[key]).shape :
                        Unwrap(shape[key]).shape[inner].zod = "optional"
                           <=> ~Listed(rootSchema.properties[1][key], inner)
       /\ (parsed # "built" /\ toolInput = EmptyObject /\ "x" \in DOMAIN shape
             /\ ~Accepts(ValidatorOfX, Undefined))
            => (parsed = "rejected" <=> Listed(rootSchema, "x"))
       /\ (parsed # "built" /\ "x" \in DOMAIN shape /\ ValidatorOfX.zod = "string"
             /\ toolInput \in {EmptyObject, Obj([x |-> Str("v")])})
            => (parsed = "accepted"
                  <=> (~Listed(rootSchema, "x") \/ toolInput # EmptyObject))

\* the argument {} has been rejected by the validator of a shape with
\* properties {x: string} that requires x
C18_Witness ==
    /\ parsed = "rejected"
    /\ toolInput = EmptyObject
    /\ rootSchema.properties # Null
    /\ "x" \in DOMAIN rootSchema.properties[1]
    /\ ShapeOfX = StringShape
    /\ Listed(rootSchema, "x")

\* the enum of the shape when it is present and not empty, <<>> otherwise
Members(schema) == IF Field(schema, "enum") = Null THEN <<>> ELSE schema.enum[1]

\* the value is one of the members
IsMember(value, members) ==
    \E i \in 1..Len(members) :
       JsonType(members[i]) = JsonType(value) /\ Payload(members[i]) = Payload(value)

\* C19: for a property of type string or number: with a non-empty enum the
\* validator accepts exactly the listed values (an enum validator for
\* strings; for numbers one literal when the enum has one value, a union
\* otherwise); with an absent or empty enum it is the unrestricted string or
\* number validator.
C19_EnumTranslation ==
    (parsed \notin {"none", "thrown"} /\ OnlyX /\ TypeOf(ShapeOfX) \in {"string", "number"})
       => LET members == Members(ShapeOfX)
              type == TypeOf(ShapeOfX)
          IN
          /\ ValidatorOfX.zod =
                IF members = <<>> THEN type
                ELSE IF type = "string" THEN "enum"
                ELSE IF Len(members) = 1 THEN "literal"
                ELSE "union"
          /\ parsed # "built"
                => (parsed = "accepted"
                      <=> /\ JsonType(ValueOfX) = type
                          /\ members # <<>> => IsMember(ValueOfX, members))

\* the number 3 has been rejected by the validator of {type: number, enum:
\* [1, 2]}
C19_Witness ==
    /\ parsed = "rejected"
    /\ OnlyX
    /\ ShapeOfX = [type |-> "number", enum |-> Some(<<Num(1), Num(2)>>)]
    /\ ValueOfX = Num(3)

\* the shape has no additionalProperties that is true or a shape
NoUsableAdditional(schema) ==
    LET additional == Field(schema, "additionalProperties") IN
    additional = Null \/ (JsonType(additional[1]) = "boolean" /\ ~Payload(additional[1]))

\* C20 as stated: a property whose type is none of string, number, boolean, array and
\* object, and an object property without properties and without a usable
\* additionalProperties, gets the validator that accepts any value; an array
\* property without items gets an array of that validator.
C20_FallbackAcceptsAny ==
    (parsed \notin {"none", "thrown"} /\ OnlyX)
       => /\ (\/ TypeOf(ShapeOfX) \notin {"string", "number", "boolean", "array", "object"}
              \/ /\ TypeOf(ShapeOfX) = "object"
                 /\ Field(ShapeOfX, "properties") = Null
                 /\ NoUsableAdditional(ShapeOfX))
               => /\ ValidatorOfX.zod = "any"
                  /\ parsed # "rejected"
          /\ (TypeOf(ShapeOfX) = "array" /\ Field(ShapeOfX, "items") = Null)
               => ValidatorOfX.zod = "array" /\ ValidatorOfX.element = ZAny

\* C20 amended: a property whose type is none of string, number, boolean,
\* array and object gets the validator that accepts any value; an object
\* property without properties and without a usable additionalProperties
\* gets a record of that validator, which accepts every object and nothing
\* else; an array property without items gets an array of that validator,
\* which accepts every array and nothing else.
C20_FallbackByType ==
    (parsed \notin {"none", "thrown"} /\ OnlyX)
       => /\ TypeOf(ShapeOfX) \notin {"string", "number", "boolean", "array", "object"}
               => /\ ValidatorOfX.zod = "any"
                  /\ parsed # "rejected"
          /\ (/\ TypeOf(ShapeOfX) = "object"
              /\ Field(ShapeOfX, "properties") = Null
              /\ NoUsableAdditional(ShapeOfX))
               => /\ ValidatorOfX.zod = "record" /\ ValidatorOfX.valueType = ZAny
                  /\ parsed # "built"
                        => (parsed = "accepted" <=> JsonType(ValueOfX) = "object")
          /\ (TypeOf(ShapeOfX) = "array" /\ Field(ShapeOfX, "items") = Null)
               => /\ ValidatorOfX.zod = "array" /\ ValidatorOfX.element = ZAny
                  /\ parsed # "built"
                        => (parsed = "accepted" <=> JsonType(ValueOfX) = "array")

\* a string has been rejected by the validator of an object property without
\* properties
C20_Witness ==
    /\ parsed = "rejected"
    /\ OnlyX
    /\ ShapeOfX = [type |-> "object"]
    /\ ValueOfX = Str("a")

\* the transport kind is the one the command field decides, and every connect
\* attempt in flight uses a protocol of that kind
KindFollowsCommand ==
    /\ transportType = IF serverParams.command = Null THEN "sse" ELSE "stdio"
    /\ \A p \in Procs : \A i \in 1..Len(proc[p].attempts) :
          proc[p].attempts[i].proto \in
             (IF transportType = "stdio" THEN {"stdio"} ELSE {"http", "sse"})

\* C22: the transport kind is 'stdio' exactly when the configuration has a
\* command, no step of initialize, createClient, get_tools or an adapter
\* call changes it, and every connect attempt uses a protocol of that kind.
C22_TransportKindFixed ==
    [][/\ KindFollowsCommand
       /\ KindFollowsCommand'
       /\ transportType' = transportType]_vars

\* an adapter call of a network toolkit has fallen back to the event-stream
\* protocol
C22_Witness ==
    /\ transportType = "sse"
    /\ \E p \in Procs :
         /\ proc[p].op = "invoke"
         /\ Len(proc[p].attempts) = 2
         /\ proc[p].attempts[2].proto = "sse"

\* C25: no step of createClient, initialize, get_tools or an adapter call
\* changes the stored connection configuration; the env of a process
\* configuration is the same after every connect.
C25_ServerParamsImmutable ==
    [][serverParams' = serverParams]_vars

\* a process toolkit has spawned twice, for discovery and for an adapter
\* call, and its stored env is still absent
C25_Witness ==
    /\ transportType = "stdio"
    /\ nClients >= 2
    /\ serverParams.env = Null
    /\ \E p \in Procs : proc[p].op = "invoke" /\ proc[p].pc = "connect"

\* the adapters of list are named, in order, after some of the descriptors
\* of catalog, in the order of the catalog
RECURSIVE InCatalogOrder(_, _)
InCatalogOrder(list, catalog) ==
    IF list = <<>> THEN TRUE
    ELSE IF catalog = <<>> THEN FALSE
    ELSE IF Head(list).name = Head(catalog).name
         THEN InCatalogOrder(Tail(list), Tail(catalog))
         ELSE InCatalogOrder(list, Tail(catalog))

\* C28: tools is non-empty only when a catalog is stored, and its adapters
\* are named after descriptors of the stored catalog, in the relative order
\* of those descriptors.
C28_AdaptersFollowCatalog ==
    /\ tools # <<>> => _tools # Null
    /\ _tools # Null => InCatalogOrder(tools, _tools[1])

\* the position of the first argument of spawnArgs that the loop body rejects
FirstOffending ==
    CHOOSE i \in 1..Len(spawnArgs) :
        /\ CheckArg(spawnArgs[i]) # "ok"
        /\ \A j \in 1..(i - 1) : CheckArg(spawnArgs[j]) = "ok"

\* the part of an offending argument a message may show
Shown(arg) == IF Len(arg) > MaxArgLength THEN SubSeq(arg, 1, ShownLength) ELSE arg

\* C26: a rejection names the first offending argument of the list, and
\* when that argument is longer than 1000 characters the message holds its
\* beginning only, never the whole argument, whichever check rejected it.
C26_RejectionNamesTruncated ==
    rejection \notin {"none", "ok"} =>
        LET arg == spawnArgs[FirstOffending].value IN
        /\ Contains(message, Shown(arg))
        /\ Len(arg) > MaxArgLength => ~Contains(message, arg)

\* validator.description: Null when the node was built without describe
Description(validator) ==
    IF "description" \in DOMAIN validator THEN Some(validator.description) ELSE Null

\* the validator node built for the shape node schema, the node under its
\* optional() mark and every node below it that has a source shape node
\* (properties, items, an additionalProperties shape) carry the description
\* of their source node, '' when it has none
RECURSIVE Retains(_, _)
Retains(validator, schema) ==
    LET node == Unwrap(validator)
        additional == Field(schema, "additionalProperties")
        fromShape == additional # Null /\ JsonType(additional[1]) = "object"
    IN
    /\ Description(validator) = Some(DescriptionOf(schema))
    /\ Description(node) = Some(DescriptionOf(schema))
    /\ (node.zod = "array" /\ Field(schema, "items") # Null)
          => Retains(node.element, schema.items[1])
    /\ node.zod = "object"
          => /\ \A key \in DOMAIN node.shape :
                   Retains(node.shape[key], schema.properties[1][key])
             /\ (node.catchall # Null /\ fromShape)
                   => Retains(node.catchall[1], Payload(additional[1]))
    /\ (node.zod = "record" /\ fromShape)
          => Retains(node.valueType, Payload(additional[1]))

\* C27: every node of the validator translated from a root shape, the root
\* object node and the nodes made optional included, carries the
\* description of its source shape node, the empty string when there is none.
C27_DescriptionsRetained ==
    parsed \notin {"none", "thrown"} => Retains(baseSchema[1], rootSchema)

C24_InvocationRequest ==
    (last.op = "invoke" /\ last.result = "ok") =>
        /\ last.nreq = 1
        /\ Len(last.reqs) = 1
        /\ last.reqs[1].method = "tools/call"
        /\ last.reqs[1].params = Some([name |-> last.name, arguments |-> last.input[1]])
        /\ last.reqs[1].options = serverParams.options
        /\ last.content # Null
        /\ last.out = Some(JSONstringify(last.content[1]))

\* an adapter of a configuration with options was called with {x: 'q'} and
\* returned the text of a payload of two items
C24_Witness ==
    /\ last.op = "invoke"
    /\ last.result = "ok"
    /\ serverParams.options # Null
    /\ last.input = Some(CallInputQuery)
    /\ Len(last.content[1][2]) = 2

\* the name is one of the selected actions of the node
Selected(name) ==
    /\ nodeData.mcpActions[1] # "undefined"
    /\ \E i \in 1..Len(nodeData.mcpActions[2]) : nodeData.mcpActions[2][i] = name

\* the steps of an init call of p: its start, the assignment of the toolkit
\* it created, and its return
InitStarts(p) ==
    /\ nodeProc[p].pc = "idle"
    /\ nodeProc'[p].op = "init" \/ (nodeLast'.op = "init" /\ nodeLast'.caller = p)
InitAssigns(p) ==
    nodeProc[p].op = "init" /\ nodeProc[p].pc = "createToolkit" /\ nodeProc'[p].pc = "getTools"
InitReturns(p) ==
    nodeProc[p].op = "init" /\ nodeProc[p].pc = "getTools" /\ nodeProc'[p].pc = "idle"

\* C29: an init call first drops the toolkit the node holds; once its own
\* toolkit is initialized the node holds that one, newly constructed,
\* toolkit; the call returns exactly the adapters of that toolkit whose names
\* are selected, in their order, and none when no action is selected; after
\* cleanup the node holds no toolkit.
C29_InitSelectsAdapters ==
    [][/\ \A p \in Procs :
            /\ InitStarts(p) => nodeToolkit' = Null
            /\ InitAssigns(p)
                  => /\ nodeToolkit' # Null
                     /\ nodeToolkit # Null => nodeToolkit'[1].id # nodeToolkit[1].id
                     /\ nodeToolkit'[1].id = nodeProc[p].id
            /\ InitReturns(p)
                  => LET adapters == nodeProc[p].toolkit[1].tools
                         value == nodeLast'.value
                     IN
                     /\ nodeLast'.op = "init" /\ nodeLast'.result = "ok"
                     /\ \A i \in 1..Len(adapters) :
                           Selected(adapters[i].name)
                              <=> \E j \in 1..Len(value) : value[j] = adapters[i]
                     /\ Len(value) = Cardinality({i \in 1..Len(adapters) :
                                                     Selected(adapters[i].name)})
                     /\ InCatalogOrder(value, adapters)
                     /\ (\A i \in 1..Len(adapters) : ~Selected(adapters[i].name))
                           => value = <<>>
                     /\ nodeToolkit' = nodeToolkit
       /\ nodeLast'.op = "cleanup" => nodeToolkit' = Null]_vars

\* a second init of the node has returned some but not all adapters of the
\* toolkit it created, which the node holds
C29_Witness ==
    /\ nodeLast.op = "init"
    /\ nodeLast.result = "ok"
    /\ nodeLast.toolkit[1].id >= 2
    /\ nodeToolkit = nodeLast.toolkit
    /\ Len(nodeLast.value) >= 1
    /\ Len(nodeLast.value) < Len(nodeLast.toolkit[1].tools)

\* C30: listActions never raises; when the creation or the initialization of
\* the toolkit failed (no configuration, a configuration that does not
\* parse or has no url, a failed connect, a failed discovery) it returns the
\* single option named 'error'; otherwise it returns one option for each
\* adapter of the toolkit, in the order of their names.
C30_ListActionsNeverRaises ==
    nodeLast.op = "listActions" =>
        /\ nodeLast.result = "ok"
        /\ nodeLast.cause # "none"
              => /\ Len(nodeLast.value) = 1
                 /\ nodeLast.value[1].name = NameError
        /\ nodeLast.cause = "none"
              => LET adapters == nodeLast.toolkit[1].tools
                     value == nodeLast.value
                 IN
                 /\ Len(value) = Len(adapters)
                 /\ \A i \in 1..Len(adapters) :
                       \E j \in 1..Len(value) : value[j].name = adapters[i].name
                 /\ \A i, j \in 1..Len(value) :
                       i < j => ~localeCompareLess(value[j].name, value[i].name)

\* listActions has returned three options for a toolkit whose adapters are
\* not in the order of their names
C30_Witness ==
    /\ nodeLast.op = "listActions"
    /\ nodeLast.cause = "none"
    /\ Len(nodeLast.value) = 3
    /\ nodeLast.value[1].name # nodeLast.toolkit[1].tools[1].name

\* the call that settled in the step just taken raised inside createClient
CreateClientRaised ==
    /\ last.op \in {"initialize", "invoke"}
    /\ last.session = "none"
    /\ last.result \notin {"ok", "none"}

\* the transports of a list of attempts that are open
OpenResources(attempts) ==
    {i \in 1..Len(attempts) : attempts[i].resource = "open"}

\* C23 as stated: every createClient call, one that returns its client and
\* one that raises, has opened exactly one transport resource, and none is
\* left open unless the caller was given the session.
C23_OneTransportPerCall ==
    /\ last.op = "createClient"
          => Len(last.returned) = 1 /\ Cardinality(OpenResources(last.returned)) = 1
    /\ CreateClientRaised
          => Len(last.attempts) = 1 /\ OpenResources(last.attempts) = {}

====
